---- MODULE Spec2Model ----
(***************************************************************************)
(* Model of gemini_stock_bot.py: the watchlist loop, run_analysis, the     *)
(* Gemini model scanner (get_working_model_and_response) and the           *)
(* indicator engine (calculate_technical_indicators).                      *)
(*                                                                         *)
(* Texts are TLA+ strings, and the substring tests of the code ("x in s")  *)
(* are computed on them.  Prices are integers (a price unit), and every    *)
(* float the code derives by division is an exact rational or one of the   *)
(* IEEE values nan / inf that numpy produces instead of raising.           *)
(*                                                                         *)
(* Not modelled: the EMA and MACD columns, the volume fields and the       *)
(* console output.  On a non-empty frame none of them raises, and nothing  *)
(* below reads them.                                                       *)
(***************************************************************************)
EXTENDS Integers, Sequences, FiniteSets, TLC

VARIABLES
    env,            \* module-level configuration read from os.environ (lines 12-16)
    pc,             \* position of the single thread of control
    idx,            \* position of the for loop in my_portfolio
    ticker,         \* self.ticker of the current bot
    company_name,   \* self.company_name of the current bot
    tech_data,      \* run_analysis: result of calculate_technical_indicators
    news,           \* run_analysis: result of get_stable_news
    all_models,     \* get_working_model_and_response: result of genai.list_models
    text_models,    \* get_working_model_and_response: the sorted candidate names
    pos,            \* get_working_model_and_response: position of the for loop
    advice,         \* run_analysis: the text the scanner returned
    fetched,        \* calculate_technical_indicators: what stock.history gave
    calls,          \* history: the external calls made for the current instrument
    started,        \* history: tickers whose run_analysis has begun
    finished        \* history: tickers whose run_analysis has returned

vars == <<env, pc, idx, ticker, company_name, tech_data, news, all_models,
          text_models, pos, advice, fetched, calls, started, finished>>

\* Python's None, for the variables that else hold a record
None == [none |-> TRUE]

\* the outcome of an external call: it raised, or it returned value
Raised == [raised |-> TRUE, value |-> <<>>]
Returned(v) == [raised |-> FALSE, value |-> v]

----------------------------------------------------------------------------
(* Bounds of the model *)

\* longest result of genai.list_models when the scanner is explored alone
MaxModels == 3
\* longest result of genai.list_models while the watchlist is scanned
MaxWatchModels == 1
\* prices of the bars whose candlestick is classified range over 1..MaxPrice
MaxPrice == 12
\* longest price series is RSI_WINDOW + ExtraBars bars
ExtraBars == 1

----------------------------------------------------------------------------
(* Python str operations *)

\* "sub in s"
Contains(sub, s) ==
    \E i \in 1..(Len(s) - Len(sub) + 1) : SubSeq(s, i, i + Len(sub) - 1) = sub

\* the characters str.strip() removes
Whitespace == {" ", "\n", "\t", "\r"}

RECURSIVE LStrip(_)
LStrip(s) ==
    IF Len(s) > 0 /\ SubSeq(s, 1, 1) \in Whitespace
    THEN LStrip(SubSeq(s, 2, Len(s)))
    ELSE s

RECURSIVE RStrip(_)
RStrip(s) ==
    IF Len(s) > 0 /\ SubSeq(s, Len(s), Len(s)) \in Whitespace
    THEN RStrip(SubSeq(s, 1, Len(s) - 1))
    ELSE s

\* s.strip()
Strip(s) == RStrip(LStrip(s))

\* s.replace(old, ""): every non-overlapping occurrence, left to right
RECURSIVE Remove(_, _)
Remove(s, old) ==
    IF Len(s) < Len(old) THEN s
    ELSE IF SubSeq(s, 1, Len(old)) = old
         THEN Remove(SubSeq(s, Len(old) + 1, Len(s)), old)
         ELSE SubSeq(s, 1, 1) \o Remove(SubSeq(s, 2, Len(s)), old)

----------------------------------------------------------------------------
(* The Gemini model scanner: get_working_model_and_response *)

ERROR_LISTING == "ERROR: API Key invalid or service down."
ERROR_ALL_FAILED == "ERROR: Tried all available models and none worked."

\* the models genai.list_models may report
Catalog == {
    [name |-> "models/gemma-3-27b-it",        methods |-> {"generateContent"}],
    [name |-> "models/gemini-2.0-flash-lite", methods |-> {"generateContent"}],
    [name |-> "models/gemini-1.5-flash",      methods |-> {"generateContent"}],
    [name |-> "models/gemini-2.0-flash",      methods |-> {"generateContent"}],
    [name |-> "models/gemini-1.5-pro",        methods |-> {"generateContent"}],
    [name |-> "models/gemini-2.5-pro",        methods |-> {"generateContent"}],
    [name |-> "models/embedding-001",         methods |-> {"embedContent"}] }

\* the results of a listing that succeeds, of at most maxLen models: no model
\* is reported twice
Listings(maxLen) ==
    { l \in UNION { [1..n -> Catalog] : n \in 0..maxLen } :
        \A i, j \in 1..Len(l) : i # j => l[i] # l[j] }

\* the texts a completion may carry (response.text)
Responses == {
    "ACTION: BUY NOW\nENTRY: $10",
    "  ACTION: SELL\n",
    "If it dips:\nENTRY: $9\n",
    "ACTION: WAIT FOR PULLBACK\nBUY ZONE: $8-$9",
    "action: sell" }

\* lines 38-42: the names of the models that support generateContent
RECURSIVE TextModels(_)
TextModels(ms) ==
    IF Len(ms) = 0 THEN <<>>
    ELSE IF "generateContent" \in ms[1].methods
         THEN <<Remove(ms[1].name, "models/")>> \o TextModels(Tail(ms))
         ELSE TextModels(Tail(ms))

sort_priority_flash_first(name) ==
    IF Contains("gemma", name) THEN 0
    ELSE IF Contains("flash", name) /\ ~Contains("2.0", name) THEN 2
    ELSE IF Contains("flash", name) THEN 3
    ELSE IF Contains("lite", name) THEN 1
    ELSE 4

\* lines 44-49
sort_priority(name) ==
    IF Contains("gemma", name) THEN 0
    ELSE IF Contains("lite", name) THEN 1
    ELSE IF Contains("flash", name) /\ ~Contains("2.0", name) THEN 2
    ELSE IF Contains("flash", name) THEN 3
    ELSE 4

\* insertion of x behind the last element whose key is not greater
RECURSIVE Insert(_, _)
Insert(x, sorted) ==
    IF Len(sorted) = 0 THEN <<x>>
    ELSE IF sort_priority(sorted[Len(sorted)]) <= sort_priority(x)
         THEN Append(sorted, x)
         ELSE Append(Insert(x, SubSeq(sorted, 1, Len(sorted) - 1)),
                     sorted[Len(sorted)])

RECURSIVE SortFrom(_, _)
SortFrom(done, rest) ==
    IF Len(rest) = 0 THEN done
    ELSE SortFrom(Insert(rest[1], done), Tail(rest))

\* line 51: list.sort(key=sort_priority), a stable sort
SortByPriority(names) == SortFrom(<<>>, names)

----------------------------------------------------------------------------
(* numpy float arithmetic: exact rationals, and nan / inf instead of errors *)

NaN == [k |-> "nan"]

Abs(x) == IF x < 0 THEN -x ELSE x
Min(a, b) == IF a <= b THEN a ELSE b
Max(a, b) == IF a >= b THEN a ELSE b
Sign(x) == IF x < 0 THEN -1 ELSE IF x > 0 THEN 1 ELSE 0

RECURSIVE Gcd(_, _)
Gcd(a, b) == IF b = 0 THEN a ELSE Gcd(b, a % b)

\* the rational n/d (d # 0) in lowest terms with a positive denominator
Fin(n, d) ==
    LET g == Gcd(Abs(n), Abs(d))
    IN  [k |-> "fin", n |-> (Sign(d) * n) \div g, d |-> Abs(d) \div g]

Num(x) == Fin(x, 1)

\* a + b
FAdd(a, b) ==
    IF a.k = "nan" \/ b.k = "nan" THEN NaN
    ELSE IF a.k = "inf" /\ b.k = "inf" THEN (IF a.s = b.s THEN a ELSE NaN)
    ELSE IF a.k = "inf" THEN a
    ELSE IF b.k = "inf" THEN b
    ELSE Fin(a.n * b.d + b.n * a.d, a.d * b.d)

\* -a
FNeg(a) ==
    IF a.k = "nan" THEN NaN
    ELSE IF a.k = "inf" THEN [k |-> "inf", s |-> -a.s]
    ELSE Fin(-a.n, a.d)

\* a - b
FSub(a, b) == FAdd(a, FNeg(b))

\* a * b
FMul(a, b) ==
    IF a.k = "nan" \/ b.k = "nan" THEN NaN
    ELSE IF a.k = "inf" \/ b.k = "inf"
         THEN LET sa == IF a.k = "inf" THEN a.s ELSE Sign(a.n)
                  sb == IF b.k = "inf" THEN b.s ELSE Sign(b.n)
              IN  IF sa * sb = 0 THEN NaN ELSE [k |-> "inf", s |-> sa * sb]
    ELSE Fin(a.n * b.n, a.d * b.d)

\* a / b as numpy divides: x/0 is inf, 0/0 and inf/inf are nan, nothing raises
FDiv(a, b) ==
    IF a.k = "nan" \/ b.k = "nan" THEN NaN
    ELSE IF a.k = "inf" /\ b.k = "inf" THEN NaN
    ELSE IF a.k = "inf"
         THEN [k |-> "inf", s |-> IF b.n < 0 THEN -a.s ELSE a.s]
    ELSE IF b.k = "inf" THEN Num(0)
    ELSE IF b.n = 0
         THEN (IF a.n = 0 THEN NaN ELSE [k |-> "inf", s |-> Sign(a.n)])
    ELSE Fin(a.n * b.d, a.d * b.n)

\* a < b; every comparison with nan is False
FLess(a, b) ==
    IF a.k = "nan" \/ b.k = "nan" THEN FALSE
    ELSE IF a.k = "inf" THEN a.s = -1 /\ ~(b.k = "inf" /\ b.s = -1)
    ELSE IF b.k = "inf" THEN b.s = 1
    ELSE a.n * b.d < b.n * a.d

----------------------------------------------------------------------------
(* The indicator engine: calculate_technical_indicators *)

RSI_WINDOW == 14
RECENT == 20
DAY == 24

\* df.tail(n)
TailN(df, n) == SubSeq(df, Max(1, Len(df) - n + 1), Len(df))

RECURSIVE SeqMax(_)
SeqMax(xs) == IF Len(xs) = 1 THEN xs[1] ELSE Max(xs[1], SeqMax(Tail(xs)))

RECURSIVE SeqMin(_)
SeqMin(xs) == IF Len(xs) = 1 THEN xs[1] ELSE Min(xs[1], SeqMin(Tail(xs)))

RECURSIVE SeqSum(_)
SeqSum(xs) == IF Len(xs) = 0 THEN 0 ELSE xs[1] + SeqSum(Tail(xs))

Column(df, f) == [t \in 1..Len(df) |-> df[t][f]]

\* line 86: df['Close'].diff(); the first delta is nan
Delta(df) ==
    [t \in 1..Len(df) |-> IF t = 1 THEN NaN
                          ELSE Num(df[t].Close - df[t - 1].Close)]

\* line 87: delta.where(delta > 0, 0); a nan delta compares False and becomes 0
Gains(delta) ==
    [t \in 1..Len(delta) |-> IF FLess(Num(0), delta[t]) THEN delta[t].n ELSE 0]

\* line 88: -delta.where(delta < 0, 0)
Losses(delta) ==
    [t \in 1..Len(delta) |-> IF FLess(delta[t], Num(0)) THEN -delta[t].n ELSE 0]

\* .rolling(window=14).mean() at the latest bar: nan until the window is full
RollingMeanLast(xs) ==
    IF Len(xs) < RSI_WINDOW THEN NaN
    ELSE Fin(SeqSum(TailN(xs, RSI_WINDOW)), RSI_WINDOW)

\* lines 89-90: rs = gain / loss;  RSI = 100 - (100 / (1 + rs))
RSIOfRatio(gain, loss) ==
    FSub(Num(100), FDiv(Num(100), FAdd(Num(1), FDiv(gain, loss))))

\* lines 86-90 and 145: latest['RSI']
RSI(df) ==
    LET delta == Delta(df)
        gain == RollingMeanLast(Gains(delta))
        loss == RollingMeanLast(Losses(delta))
    IN  RSIOfRatio(gain, loss)

\* line 146
RSISignal(rsi) ==
    IF FLess(rsi, Num(30)) THEN "OVERSOLD"
    ELSE IF FLess(Num(70), rsi) THEN "OVERBOUGHT"
    ELSE "NEUTRAL"

CandlePattern_doji_first(latest) ==
    LET body == Abs(latest.Close - latest.Open)
        upper_shadow == latest.High - Max(latest.Close, latest.Open)
        lower_shadow == Min(latest.Close, latest.Open) - latest.Low
    IN  IF body > 0
        THEN IF 10 * body < latest.High - latest.Low
             THEN "Doji (Indecision)"
             ELSE IF lower_shadow > 2 * body /\ upper_shadow < body
                  THEN "Hammer (Bullish Reversal)"
                  ELSE IF upper_shadow > 2 * body /\ lower_shadow < body
                       THEN "Shooting Star (Bearish Reversal)"
                       ELSE "Neutral"
        ELSE "Neutral"

\* lines 110-122; body < 0.1 * range is 10 * body < range
CandlePattern(latest) ==
    LET body == Abs(latest.Close - latest.Open)
        upper_shadow == latest.High - Max(latest.Close, latest.Open)
        lower_shadow == Min(latest.Close, latest.Open) - latest.Low
    IN  IF body > 0
        THEN IF lower_shadow > 2 * body /\ upper_shadow < body
             THEN "Hammer (Bullish Reversal)"
             ELSE IF upper_shadow > 2 * body /\ lower_shadow < body
                  THEN "Shooting Star (Bearish Reversal)"
                  ELSE IF 10 * body < latest.High - latest.Low
                       THEN "Doji (Indecision)"
                       ELSE "Neutral"
        ELSE "Neutral"

\* lines 129-165: the dict that is returned
Snapshot(df) ==
    LET latest == df[Len(df)]
        previous == df[Len(df) - 1]
        price == latest.Close
        rsi == RSI(df)
    IN  [ current_price    |-> price,
          previous_close   |-> previous.Close,
          high_24h         |-> SeqMax(Column(TailN(df, DAY), "High")),
          low_24h          |-> SeqMin(Column(TailN(df, DAY), "Low")),
          rsi              |-> rsi,
          rsi_signal       |-> RSISignal(rsi),
          candle_pattern   |-> CandlePattern(latest),
          resistance       |-> SeqMax(Column(TailN(df, RECENT), "High")),
          support          |-> SeqMin(Column(TailN(df, RECENT), "Low")),
          price_change_pct |-> FMul(FDiv(Num(price - previous.Close),
                                         Num(previous.Close)), Num(100)) ]

\* lines 69-169.  history is the outcome of stock.history.  df.iloc[-2] raises
\* IndexError on a frame of one row, and the except clause turns every
\* exception into None.
calculate_technical_indicators(history) ==
    IF history.raised THEN None
    ELSE IF Len(history.value) = 0 THEN None
    ELSE IF Len(history.value) < 2 THEN None
    ELSE Snapshot(history.value)

----------------------------------------------------------------------------
(* get_stable_news *)

\* what requests.get(url).json() may give: the request or the decoding raised,
\* or the articles
NewsReplies == {
    Raised,
    Returned(<<>>),
    Returned(<< [title |-> "T1", description |-> "D1"],
                [title |-> "T2", description |-> "D2"],
                [title |-> "T3", description |-> "D3"],
                [title |-> "T4", description |-> "D4"] >>) }

\* lines 177-184
get_stable_news(reply) ==
    IF reply.raised THEN <<>>
    ELSE LET articles == SubSeq(reply.value, 1, Min(3, Len(reply.value)))
         IN  [i \in 1..Len(articles) |->
                 articles[i].title \o " - " \o articles[i].description]

----------------------------------------------------------------------------
(* The watchlist loop and run_analysis *)

\* line 310
my_portfolio == <<"HOOD", "TSLA", "NVDA", "GOOGL", "AAPL">>

\* the shortName the metadata lookup gives for a ticker
ShortName(t) == t \o " Inc"

Bar(o, h, l, c) == [Open |-> o, High |-> h, Low |-> l, Close |-> c]

\* what stock.history may give while the watchlist is scanned
WatchlistFetches == {
    Raised,
    Returned(<<>>),
    Returned(<< Bar(5, 6, 4, 5) >>),
    Returned(<< Bar(5, 6, 4, 5), Bar(5, 7, 5, 6) >>) }

Call(op, arg, out) == [op |-> op, arg |-> arg, out |-> out]

IsActionable_any_buy_or_sell(text) ==
    Contains("BUY", text) \/ Contains("SELL", text)

\* lines 258-261
IsActionable(text) ==
    LET is_buy_signal == Contains("ACTION: BUY NOW", text) \/ Contains("ENTRY: $", text)
        is_sell_signal == Contains("ACTION: SELL", text)
    IN  is_buy_signal \/ is_sell_signal

Init ==
    /\ env \in [news_key : BOOLEAN, email : BOOLEAN]
    /\ pc = "loop"
    /\ idx = 1
    /\ ticker = ""
    /\ company_name = ""
    /\ tech_data = None
    /\ news = <<>>
    /\ all_models = <<>>
    /\ text_models = <<>>
    /\ pos = 0
    /\ advice = ""
    /\ fetched = None
    /\ calls = <<>>
    /\ started = <<>>
    /\ finished = <<>>

\* lines 316-317 and 23-28: the next ticker's bot is constructed; the metadata
\* lookup gives the short name, or fails and leaves the ticker as the name
Construct ==
    /\ pc = "loop"
    /\ idx <= Len(my_portfolio)
    /\ ticker' = my_portfolio[idx]
    /\ \/ /\ company_name' = ShortName(my_portfolio[idx])
          /\ calls' = << Call("info", my_portfolio[idx], "ok") >>
       \/ /\ company_name' = my_portfolio[idx]
          /\ calls' = << Call("info", my_portfolio[idx], "raise") >>
    /\ tech_data' = None
    /\ news' = <<>>
    /\ all_models' = <<>>
    /\ text_models' = <<>>
    /\ pos' = 0
    /\ advice' = ""
    /\ fetched' = None
    /\ pc' = "run_analysis"
    /\ UNCHANGED <<env, idx, started, finished>>

\* lines 186-192 and 71-72: run_analysis begins and the price history is fetched
Fetch ==
    /\ pc = "run_analysis"
    /\ \E f \in WatchlistFetches :
          /\ fetched' = f
          /\ calls' = Append(calls, Call("history", ticker,
                                         IF f.raised THEN "raise" ELSE "ok"))
    /\ started' = Append(started, ticker)
    /\ pc' = "calculate"
    /\ UNCHANGED <<env, idx, ticker, company_name, tech_data, news, all_models,
                   text_models, pos, advice, finished>>

Calculate_no_skip ==
    /\ pc = "calculate"
    /\ tech_data' = calculate_technical_indicators(fetched)
    /\ pc' = "news"
    /\ UNCHANGED <<env, idx, ticker, company_name, news, all_models,
                   text_models, pos, advice, fetched, calls, started, finished>>

Calculate_aborts ==
    /\ pc = "calculate"
    /\ tech_data' = calculate_technical_indicators(fetched)
    /\ IF tech_data' = None
       THEN pc' = "done"
       ELSE pc' = "news"
    /\ UNCHANGED <<env, idx, ticker, company_name, news, all_models,
                   text_models, pos, advice, fetched, calls, started, finished>>

\* lines 74-169 and 193-195: the snapshot, or None and the instrument is skipped
Calculate ==
    /\ pc = "calculate"
    /\ tech_data' = calculate_technical_indicators(fetched)
    /\ IF tech_data' = None
       THEN /\ pc' = "sleep"
            /\ finished' = Append(finished, ticker)
       ELSE /\ pc' = "news"
            /\ UNCHANGED finished
    /\ UNCHANGED <<env, idx, ticker, company_name, news, all_models,
                   text_models, pos, advice, fetched, calls, started>>

\* lines 202 and 173-184
GetStableNews ==
    /\ pc = "news"
    /\ IF ~env.news_key
       THEN /\ news' = <<>>
            /\ calls' = Append(calls, Call("get_stable_news", company_name, "no key"))
       ELSE \E reply \in NewsReplies :
               /\ news' = get_stable_news(reply)
               /\ calls' = Append(calls, Call("get_stable_news", company_name,
                                  IF reply.raised THEN "raise" ELSE "ok"))
    /\ pc' = "list_models"
    /\ UNCHANGED <<env, idx, ticker, company_name, tech_data, all_models,
                   text_models, pos, advice, fetched, started, finished>>

ListModels_one_error(maxLen) ==
    /\ pc = "list_models"
    /\ \/ /\ advice' = ERROR_ALL_FAILED
          /\ calls' = Append(calls, Call("list_models", "", "raise"))
          /\ pc' = "decide"
          /\ UNCHANGED <<all_models, text_models, pos>>
       \/ \E l \in Listings(maxLen) :
             /\ all_models' = l
             /\ text_models' = SortByPriority(TextModels(l))
             /\ pos' = 1
             /\ calls' = Append(calls, Call("list_models", "", "ok"))
             /\ pc' = "attempt"
             /\ UNCHANGED advice
    /\ UNCHANGED <<env, idx, ticker, company_name, tech_data, news, fetched,
                   started, finished>>

\* lines 248 and 32-51: the listing fails and the scanner returns, or it gives
\* the models, which are filtered and sorted
ListModels(maxLen) ==
    /\ pc = "list_models"
    /\ \/ /\ advice' = ERROR_LISTING
          /\ calls' = Append(calls, Call("list_models", "", "raise"))
          /\ pc' = "decide"
          /\ UNCHANGED <<all_models, text_models, pos>>
       \/ \E l \in Listings(maxLen) :
             /\ all_models' = l
             /\ text_models' = SortByPriority(TextModels(l))
             /\ pos' = 1
             /\ calls' = Append(calls, Call("list_models", "", "ok"))
             /\ pc' = "attempt"
             /\ UNCHANGED advice
    /\ UNCHANGED <<env, idx, ticker, company_name, tech_data, news, fetched,
                   started, finished>>

Attempt_keeps_going ==
    /\ pc = "attempt"
    /\ pos <= Len(text_models)
    /\ \/ \E r \in Responses :
             /\ advice' = Strip(r)
             /\ calls' = Append(calls, Call("generate_content", text_models[pos], r))
       \/ /\ calls' = Append(calls, Call("generate_content", text_models[pos], "raise"))
          /\ UNCHANGED advice
    /\ pos' = pos + 1
    /\ UNCHANGED <<env, pc, idx, ticker, company_name, tech_data, news, all_models,
                   text_models, fetched, started, finished>>

\* lines 53-63: one pass of the loop; the completion succeeds and its stripped
\* text is returned, or it raises and the loop goes on
Attempt ==
    /\ pc = "attempt"
    /\ pos <= Len(text_models)
    /\ \/ \E r \in Responses :
             /\ advice' = Strip(r)
             /\ calls' = Append(calls, Call("generate_content", text_models[pos], r))
             /\ pc' = "decide"
             /\ UNCHANGED pos
       \/ /\ calls' = Append(calls, Call("generate_content", text_models[pos], "raise"))
          /\ pos' = pos + 1
          /\ UNCHANGED <<advice, pc>>
    /\ UNCHANGED <<env, idx, ticker, company_name, tech_data, news, all_models,
                   text_models, fetched, started, finished>>

AllFailed_listing_error ==
    /\ pc = "attempt"
    /\ pos > Len(text_models)
    /\ advice' = ERROR_LISTING
    /\ pc' = "decide"
    /\ UNCHANGED <<env, idx, ticker, company_name, tech_data, news, all_models,
                   text_models, pos, fetched, calls, started, finished>>

\* line 65: the loop ran out of candidates
AllFailed ==
    /\ pc = "attempt"
    /\ pos > Len(text_models)
    /\ advice' = ERROR_ALL_FAILED
    /\ pc' = "decide"
    /\ UNCHANGED <<env, idx, ticker, company_name, tech_data, news, all_models,
                   text_models, pos, fetched, calls, started, finished>>

\* lines 261-263 and 267-306: an actionable advice is handed to
\* send_notification, which returns at once without credentials and else
\* sends the mail, swallowing the error of a failed delivery
Notify ==
    /\ pc = "decide"
    /\ IsActionable(advice)
    /\ IF ~env.email
       THEN calls' = Append(calls, Call("send_notification", advice, "no credentials"))
       ELSE \E smtp \in {"ok", "raise"} :
               calls' = Append(calls, Call("send_notification", advice, smtp))
    /\ finished' = Append(finished, ticker)
    /\ pc' = "sleep"
    /\ UNCHANGED <<env, idx, ticker, company_name, tech_data, news, all_models,
                   text_models, pos, advice, fetched, started>>

\* lines 264-265: no mail
SkipEmail ==
    /\ pc = "decide"
    /\ ~IsActionable(advice)
    /\ finished' = Append(finished, ticker)
    /\ pc' = "sleep"
    /\ UNCHANGED <<env, idx, ticker, company_name, tech_data, news, all_models,
                   text_models, pos, advice, fetched, calls, started>>

\* line 319 and the next pass of the for loop
Sleep ==
    /\ pc = "sleep"
    /\ idx' = idx + 1
    /\ pc' = "loop"
    /\ UNCHANGED <<env, ticker, company_name, tech_data, news, all_models,
                   text_models, pos, advice, fetched, calls, started, finished>>

\* line 321: the watchlist is exhausted
ScanComplete ==
    /\ pc = "loop"
    /\ idx > Len(my_portfolio)
    /\ pc' = "done"
    /\ UNCHANGED <<env, idx, ticker, company_name, tech_data, news, all_models,
                   text_models, pos, advice, fetched, calls, started, finished>>

Next ==
    \/ Construct
    \/ Fetch
    \/ Calculate
    \/ GetStableNews
    \/ ListModels(MaxWatchModels)
    \/ Attempt
    \/ AllFailed
    \/ Notify
    \/ SkipEmail
    \/ Sleep
    \/ ScanComplete

Spec == Init /\ [][Next]_vars

\* every call of the program returns: the thread is never stopped for good
FairSpec == Spec /\ WF_vars(Next)

----------------------------------------------------------------------------
(* The scanner alone: one call of get_working_model_and_response *)

ScannerInit ==
    /\ env \in [news_key : BOOLEAN, email : BOOLEAN]
    /\ pc = "list_models"
    /\ idx = 1
    /\ ticker = my_portfolio[1]
    /\ company_name = my_portfolio[1]
    /\ fetched = Returned(<< Bar(5, 6, 4, 5), Bar(5, 7, 5, 6) >>)
    /\ tech_data = calculate_technical_indicators(fetched)
    /\ news = <<>>
    /\ all_models = <<>>
    /\ text_models = <<>>
    /\ pos = 0
    /\ advice = ""
    /\ calls = <<>>
    /\ started = << my_portfolio[1] >>
    /\ finished = <<>>

ScannerNext ==
    \/ ListModels(MaxModels)
    \/ Attempt
    \/ AllFailed

ScannerSpec == ScannerInit /\ [][ScannerNext]_vars

----------------------------------------------------------------------------
(* The indicator engine alone: one call of calculate_technical_indicators *)

\* every bar with prices in 1..MaxPrice: Low <= Open, Close <= High
Bars ==
    { b \in [Open : 1..MaxPrice, High : 1..MaxPrice,
             Low : 1..MaxPrice, Close : 1..MaxPrice] :
        /\ b.Low <= Min(b.Open, b.Close)
        /\ Max(b.Open, b.Close) <= b.High }

\* the closes of the long series
CloseLevels == {10, 11}

\* a series of bars that open, peak, dip and close at the given closes
FlatBars(closes) ==
    [t \in 1..Len(closes) |-> Bar(closes[t], closes[t], closes[t], closes[t])]

\* what stock.history may give: an exception, the empty frame, one bar, two
\* bars, and series around the length of the RSI window
IsIndicatorFetch(f) ==
    \/ f \in {Raised, Returned(<<>>)}
    \/ \E b \in Bars : f = Returned(<<b>>)
    \/ \E b \in Bars : f = Returned(<<Bar(5, 6, 4, 5), b>>)
    \/ \E n \in RSI_WINDOW..(RSI_WINDOW + ExtraBars) :
          \E cs \in [1..n -> CloseLevels] : f = Returned(FlatBars(cs))

IndicatorInit ==
    /\ env \in [news_key : {TRUE}, email : {TRUE}]
    /\ pc = "calculate"
    /\ idx = 1
    /\ ticker = my_portfolio[1]
    /\ company_name = my_portfolio[1]
    /\ IsIndicatorFetch(fetched)
    /\ tech_data = None
    /\ news = <<>>
    /\ all_models = <<>>
    /\ text_models = <<>>
    /\ pos = 0
    /\ advice = ""
    /\ calls = << Call("info", my_portfolio[1], "raise"),
                  Call("history", my_portfolio[1],
                       IF fetched.raised THEN "raise" ELSE "ok") >>
    /\ started = << my_portfolio[1] >>
    /\ finished = <<>>

IndicatorNext == Calculate

IndicatorSpec == IndicatorInit /\ [][IndicatorNext]_vars

----------------------------------------------------------------------------
(* Properties of the scanner, checked under ScannerSpec *)

IsGenerate(c) == c.op = "generate_content"
IsListing(c) == c.op = "list_models"
IsNotification(c) == c.op = "send_notification"

\* the completion attempts of the current call, in the order they were made
Generated == SelectSeq(calls, IsGenerate)

ListingSucceeded == \E i \in 1..Len(calls) : calls[i] = Call("list_models", "", "ok")
ListingFailed == \E i \in 1..Len(calls) : calls[i] = Call("list_models", "", "raise")

\* get_working_model_and_response has returned
ScannerReturned == pc = "decide"

NoneSucceeded == \A i \in 1..Len(Generated) : Generated[i].out = "raise"

\* C1: the completion attempts are a prefix of the ranked candidates, in rank
\* order and each candidate at most once; only the last attempt can have
\* succeeded, the call then returns its (stripped) text, and the call returns
\* without a success only when every candidate was attempted.
C1_AttemptsArePrefix ==
    LET g == Generated
    IN  /\ Len(g) <= Len(text_models)
        /\ \A i \in 1..Len(g) : g[i].arg = text_models[i]
        /\ \A i, j \in 1..Len(g) : i # j => g[i].arg # g[j].arg
        /\ \A i \in 1..(Len(g) - 1) : g[i].out = "raise"
        /\ (Len(g) > 0 /\ g[Len(g)].out # "raise")
              => ScannerReturned /\ advice = Strip(g[Len(g)].out)
        /\ (ScannerReturned /\ ListingSucceeded /\ NoneSucceeded)
              => Len(g) = Len(text_models)

\* a later candidate succeeded after two failures and one candidate was left untried
C1_Witness ==
    /\ ScannerReturned
    /\ Len(Generated) = 2
    /\ Generated[1].out = "raise"
    /\ Generated[2].out # "raise"
    /\ Len(text_models) = 3

\* C2 as stated: when the listing succeeds and every candidate fails, the call
\* returns the message "no backend candidate succeeded."
C2_Original ==
    (ScannerReturned /\ ListingSucceeded /\ NoneSucceeded)
        => advice = "no backend candidate succeeded."

\* C2 as amended: when the listing succeeds and every candidate fails, the call
\* returns, after attempting every candidate, the error string
\* "ERROR: Tried all available models and none worked."
C2_AllFailedMessage ==
    (ScannerReturned /\ ListingSucceeded /\ NoneSucceeded)
        => /\ advice = "ERROR: Tried all available models and none worked."
           /\ Len(Generated) = Len(text_models)

\* three candidates were attempted and all three failed
C2_Witness ==
    /\ ScannerReturned
    /\ ListingSucceeded
    /\ NoneSucceeded
    /\ Len(Generated) = 3

\* the tier of an identifier, as the ranking is specified
Tier(name) ==
    CASE Contains("gemma", name) -> 0
      [] ~Contains("gemma", name) /\ Contains("lite", name) -> 1
      [] ~Contains("gemma", name) /\ ~Contains("lite", name)
           /\ Contains("flash", name) /\ ~Contains("2.0", name) -> 2
      [] ~Contains("gemma", name) /\ ~Contains("lite", name)
           /\ Contains("flash", name) /\ Contains("2.0", name) -> 3
      [] OTHER -> 4

\* the place of a candidate in the result of the listing call
ListedAt(name) ==
    CHOOSE k \in 1..Len(all_models) : Remove(all_models[k].name, "models/") = name

\* the listed models that support text completion
Listed ==
    { Remove(all_models[k].name, "models/") :
        k \in { i \in 1..Len(all_models) : "generateContent" \in all_models[i].methods } }

\* C3: the ranked candidates are the listed text models, ordered by tier, and
\* within a tier in the order of the listing; so of two attempted candidates
\* the one attempted first has the lower tier, or the same tier and the
\* earlier place in the listing.
C3_StableTierOrder ==
    ListingSucceeded =>
        /\ { text_models[i] : i \in 1..Len(text_models) } = Listed
        /\ Len(text_models) = Cardinality(Listed)
        /\ \A i, j \in 1..Len(text_models) :
              i < j =>
                 \/ Tier(text_models[i]) < Tier(text_models[j])
                 \/ /\ Tier(text_models[i]) = Tier(text_models[j])
                    /\ ListedAt(text_models[i]) < ListedAt(text_models[j])
        /\ \A i, j \in 1..Len(Generated) :
              i < j =>
                 \/ Tier(Generated[i].arg) < Tier(Generated[j].arg)
                 \/ /\ Tier(Generated[i].arg) = Tier(Generated[j].arg)
                    /\ ListedAt(Generated[i].arg) < ListedAt(Generated[j].arg)

\* three candidates were attempted: the first was listed last, and the other
\* two share a tier and were attempted in the order of the listing
C3_Witness ==
    /\ Len(Generated) = 3
    /\ ListedAt(Generated[1].arg) = 3
    /\ Tier(Generated[2].arg) = Tier(Generated[3].arg)
    /\ ListedAt(Generated[2].arg) < ListedAt(Generated[3].arg)

\* C4: a failed listing makes the call return with no completion attempt and
\* with a value that is not the all-candidates-failed value, which is returned
\* only after a listing that succeeded.
C4_ListingFailureDistinct ==
    /\ ListingFailed =>
          /\ ScannerReturned
          /\ Len(Generated) = 0
          /\ advice = ERROR_LISTING
          /\ advice # "ERROR: Tried all available models and none worked."
    /\ (ScannerReturned /\ advice = "ERROR: Tried all available models and none worked.")
          => ListingSucceeded /\ NoneSucceeded

\* the listing failed and the call has returned
C4_Witness == ScannerReturned /\ ListingFailed

----------------------------------------------------------------------------
(* Properties of the watchlist scan, checked under Spec and FairSpec *)

\* run_analysis of the current instrument has returned
AnalysisReturned == Len(finished) = Len(started) /\ Len(started) > 0

\* the calls made for the current instrument after its price history was fetched
Downstream ==
    { i \in 1..Len(calls) :
        calls[i].op \in {"get_stable_news", "list_models", "generate_content",
                         "send_notification"} }

\* C5: once the indicators of an empty price series are computed, the result
\* is None, the analysis of the instrument has returned, and no news fetch, no
\* listing, no completion and no notification was made for it.
C5_EmptySeriesSkipped ==
    (fetched = Returned(<<>>) /\ pc # "calculate") =>
        /\ tech_data = None
        /\ AnalysisReturned
        /\ finished[Len(finished)] = ticker
        /\ pc \in {"sleep", "loop", "done"}
        /\ Downstream = {}

\* the third instrument was skipped for an empty price series
C5_Witness ==
    /\ fetched = Returned(<<>>)
    /\ pc = "sleep"
    /\ idx = 3
    /\ tech_data = None

IsPrefix(a, b) == Len(a) <= Len(b) /\ \A i \in 1..Len(a) : a[i] = b[i]

\* the analyses run in watchlist order, one at a time, and the scan completes
\* only when every ticker was analysed
ScanInOrder ==
    /\ IsPrefix(started, my_portfolio)
    /\ IsPrefix(finished, started)
    /\ Len(started) - Len(finished) <= 1
    /\ pc = "done" => finished = my_portfolio

\* C6: whatever the outcomes of the instruments, every ticker is analysed once,
\* in watchlist order, each analysis returning before the next begins, and the
\* scan completes.
C6_BatchCompletes == []ScanInOrder /\ <>(pc = "done" /\ finished = my_portfolio)

\* the scan completed after its last instrument went through a failed listing
C6_Witness ==
    /\ pc = "done"
    /\ finished = my_portfolio
    /\ ListingFailed

\* the actionable-decision predicate, as the claim states it
MentionsSignal(text) ==
    \/ Contains("ACTION: BUY NOW", text)
    \/ Contains("ENTRY: $", text)
    \/ Contains("ACTION: SELL", text)

Notifications == SelectSeq(calls, IsNotification)

\* the scanner was called for the current instrument
ScannerCalled == \E i \in 1..Len(calls) : IsListing(calls[i])

\* C7: send_notification is invoked at most once for an instrument, only with
\* the advice of the scanner, never with one of its two error results, and,
\* once the analysis has returned, exactly when that advice contains
\* "ACTION: BUY NOW", "ENTRY: $" or "ACTION: SELL".
C7_NotifyIffActionable ==
    /\ Len(Notifications) <= 1
    /\ Len(Notifications) = 1 =>
          /\ AnalysisReturned
          /\ Notifications[1].arg = advice
          /\ advice \notin {ERROR_LISTING, ERROR_ALL_FAILED}
    /\ AnalysisReturned =>
          (Len(Notifications) = 1 <=> (ScannerCalled /\ MentionsSignal(advice)))

\* a notification went out for an advice that names an entry but no "BUY NOW"
C7_Witness ==
    /\ AnalysisReturned
    /\ Len(Notifications) = 1
    /\ Contains("ENTRY: $", advice)
    /\ ~Contains("ACTION: BUY NOW", advice)

\* no notification for an advice that says BUY without the exact keywords
C7_WitnessSkipped ==
    /\ AnalysisReturned
    /\ ScannerCalled
    /\ Len(Notifications) = 0
    /\ Contains("BUY", advice)

----------------------------------------------------------------------------
(* Properties of the indicator engine, checked under IndicatorSpec *)

\* calculate_technical_indicators has returned
Calculated == pc # "calculate"

\* C8: the pattern of the latest bar is Hammer if body > 0, lower shadow >
\* 2*body and upper shadow < body; else Shooting Star if body > 0, upper shadow
\* > 2*body and lower shadow < body; else Doji if body > 0 and body <
\* 0.1*(high-low); else Neutral.  A bar without a body is Neutral.
C8_CandlePrecedence ==
    (Calculated /\ tech_data # None) =>
        LET latest == fetched.value[Len(fetched.value)]
            body == Abs(latest.Close - latest.Open)
            upper_shadow == latest.High - Max(latest.Close, latest.Open)
            lower_shadow == Min(latest.Close, latest.Open) - latest.Low
            hammer == body > 0 /\ lower_shadow > 2 * body /\ upper_shadow < body
            star == body > 0 /\ upper_shadow > 2 * body /\ lower_shadow < body
            doji == body > 0 /\ 10 * body < latest.High - latest.Low
        IN  /\ hammer => tech_data.candle_pattern = "Hammer (Bullish Reversal)"
            /\ (~hammer /\ star) =>
                  tech_data.candle_pattern = "Shooting Star (Bearish Reversal)"
            /\ (~hammer /\ ~star /\ doji) =>
                  tech_data.candle_pattern = "Doji (Indecision)"
            /\ (~hammer /\ ~star /\ ~doji) => tech_data.candle_pattern = "Neutral"
            /\ body = 0 => tech_data.candle_pattern = "Neutral"

\* a bar that meets the Hammer test and the Doji test is a Hammer
C8_Witness ==
    /\ Calculated
    /\ tech_data # None
    /\ tech_data.candle_pattern = "Hammer (Bullish Reversal)"
    /\ LET latest == fetched.value[Len(fetched.value)]
       IN  10 * Abs(latest.Close - latest.Open) < latest.High - latest.Low

\* the sum of the losses in the 14 deltas before the latest bar
WindowLoss(df) ==
    SeqSum([t \in 1..RSI_WINDOW |->
               Max(0, df[Len(df) - t].Close - df[Len(df) - t + 1].Close)])

\* C9: with 14 deltas in the trailing window the RSI of the latest bar is a
\* number in [0, 100], and it is 100 when the window holds no loss, a flat
\* window included.
C9_RSIDefined ==
    (Calculated /\ ~fetched.raised /\ Len(fetched.value) >= RSI_WINDOW + 1) =>
        /\ tech_data # None
        /\ tech_data.rsi.k = "fin"
        /\ ~FLess(tech_data.rsi, Num(0))
        /\ ~FLess(Num(100), tech_data.rsi)
        /\ WindowLoss(fetched.value) = 0 => tech_data.rsi = Num(100)

\* C10: for every series that is not empty, a single bar included, the engine
\* returns a snapshot and not the insufficient-data result.
C10_SnapshotUnlessEmpty ==
    (Calculated /\ ~fetched.raised /\ Len(fetched.value) >= 1) => tech_data # None

====
